---------------------------- MODULE Spec2Model ----------------------------
(***************************************************************************)
(* Model of AD4826AController (src/ad4826.py): the frame codec             *)
(* (build_command_frame, parse_response_frame, parse_header), the          *)
(* exchange send_command over a serial transport, and the three device     *)
(* operations get_current_weight, cut_out_amount and discharge_all.        *)
(*                                                                         *)
(* Python str and bytes values are sequences of integers (code points and  *)
(* byte values).  Python values of different types are tagged records      *)
(* [t |-> "None"], [t |-> "bool", v |-> ...], [t |-> "dict", ...] and so on. *)
(***************************************************************************)
EXTENDS Integers, Sequences, FiniteSets, TLC

VARIABLES pc, call, wire, printed, result, ser, cin, cout

vars == <<pc, call, wire, printed, result, ser, cin, cout>>

---------------------------------------------------------------------------
(* Bytes and lengths fixed by the program.                                 *)

ENQ == 5
STX == 2
ACK == 6
NAK == 21
CR == 13
LF == 10
FILL == 95
PLUS == 43
MINUS == 45
DOT == 46
ZERO == 48
CmdLen == 8
MinFrameLen == 15
NakBase == 13
NakExtra == 4
AsciiLimit == 128
FmtWidth == 10
FmtPrec == 3

(* Bounds of the model.                                                    *)
MaxText == 3
MaxLate == 1

---------------------------------------------------------------------------
(* Python values.                                                          *)

NoneVal == [t |-> "None"]
StrVal(s) == [t |-> "str", v |-> s]
BoolVal(b) == [t |-> "bool", v |-> b]
BytesVal(b) == [t |-> "bytes", v |-> b]
Raise(e) == [t |-> "raise", exc |-> e]

(* Truthiness of an Optional[dict]: None is falsy, a dict with keys is     *)
(* truthy (every dict parse_response_frame returns has seven keys).        *)
Falsy(v) == v.t = "None"

(* b[lo:hi] with Python's clamping and negative indices, 0-based.          *)
PyIndex(n, i) == IF i < 0 THEN (IF n + i < 0 THEN 0 ELSE n + i)
                 ELSE (IF i > n THEN n ELSE i)

PySlice(b, lo, hi) ==
    LET l == PyIndex(Len(b), lo)
        h == PyIndex(Len(b), hi)
    IN  IF h <= l THEN <<>> ELSE SubSeq(b, l + 1, h)

IsAscii(s) == \A i \in 1..Len(s) : s[i] < AsciiLimit

(* Mutant: errors='replace', a byte >= 0x80 becomes U+FFFD.                 *)
RECURSIVE DecodeReplace(_)
DecodeReplace(b) ==
    IF b = <<>> THEN <<>>
    ELSE IF Head(b) < AsciiLimit THEN <<Head(b)>> \o DecodeReplace(Tail(b))
         ELSE <<65533>> \o DecodeReplace(Tail(b))

(* bytes.decode('ascii', errors='ignore'): bytes >= 0x80 are dropped.      *)
RECURSIVE DecodeIgnore(_)
DecodeIgnore(b) ==
    IF b = <<>> THEN <<>>
    ELSE IF Head(b) < AsciiLimit THEN <<Head(b)>> \o DecodeIgnore(Tail(b))
         ELSE DecodeIgnore(Tail(b))

(* str.ljust(width, fill)                                                  *)
RECURSIVE LJust(_, _, _)
LJust(s, width, fill) ==
    IF Len(s) >= width THEN s ELSE LJust(Append(s, fill), width, fill)

(* One upper-case hexadecimal digit, as f"{x:X}" prints it.                *)
HexDigit(d) ==
    CASE d = 0 -> "0" [] d = 1 -> "1" [] d = 2 -> "2" [] d = 3 -> "3"
      [] d = 4 -> "4" [] d = 5 -> "5" [] d = 6 -> "6" [] d = 7 -> "7"
      [] d = 8 -> "8" [] d = 9 -> "9" [] d = 10 -> "A" [] d = 11 -> "B"
      [] d = 12 -> "C" [] d = 13 -> "D" [] d = 14 -> "E" [] d = 15 -> "F"

---------------------------------------------------------------------------
(* The frame codec.                                                        *)

(* Mutant: the high hexadecimal digit of an unknown byte is lost.          *)
parse_header_low_digit(header_byte) ==
    IF header_byte = STX THEN <<"STX">>
    ELSE IF header_byte = ACK THEN <<"ACK">>
    ELSE IF header_byte = NAK THEN <<"NAK">>
    ELSE <<"UNKNOWN(0x", "0", HexDigit(header_byte % 16), ")">>

(* parse_header: the header string, as a sequence of its pieces;           *)
(* f"UNKNOWN(0x{header_byte:02X})" prints two hexadecimal digits.          *)
parse_header(header_byte) ==
    IF header_byte = STX THEN <<"STX">>
    ELSE IF header_byte = ACK THEN <<"ACK">>
    ELSE IF header_byte = NAK THEN <<"NAK">>
    ELSE <<"UNKNOWN(0x", HexDigit(header_byte \div 16),
           HexDigit(header_byte % 16), ")">>

(* Mutants: the channel number put before the unit number; a command code *)
(* padded with spaces.                                                     *)
build_command_frame_channel_first(unit_no, channel_no, cmd_code, text) ==
    IF Len(cmd_code) > CmdLen THEN Raise("ValueError")
    ELSE IF ~IsAscii(unit_no \o channel_no \o cmd_code \o text)
    THEN Raise("UnicodeEncodeError")
    ELSE BytesVal(<<ENQ>> \o channel_no \o unit_no
                  \o LJust(cmd_code, CmdLen, FILL) \o text \o <<CR, LF>>)

build_command_frame_space_fill(unit_no, channel_no, cmd_code, text) ==
    IF Len(cmd_code) > CmdLen THEN Raise("ValueError")
    ELSE IF ~IsAscii(unit_no \o channel_no \o cmd_code \o text)
    THEN Raise("UnicodeEncodeError")
    ELSE BytesVal(<<ENQ>> \o unit_no \o channel_no
                  \o LJust(cmd_code, CmdLen, 32) \o text \o <<CR, LF>>)

(* Mutant: a command code that is too long is cut to 8 characters.         *)
build_command_frame_truncating(unit_no, channel_no, cmd_code, text) ==
    LET padded == IF Len(cmd_code) < CmdLen
                  THEN LJust(cmd_code, CmdLen, FILL)
                  ELSE SubSeq(cmd_code, 1, CmdLen)
    IN  IF ~IsAscii(unit_no \o channel_no \o padded \o text)
        THEN Raise("UnicodeEncodeError")
        ELSE BytesVal(<<ENQ>> \o unit_no \o channel_no \o padded
                      \o (IF text # <<>> THEN text ELSE <<>>)
                      \o <<CR, LF>>)

(* build_command_frame: the frame, or the exception it raises.             *)
build_command_frame(unit_no, channel_no, cmd_code, text) ==
    IF Len(cmd_code) > CmdLen THEN Raise("ValueError")
    ELSE LET padded == IF Len(cmd_code) < CmdLen
                       THEN LJust(cmd_code, CmdLen, FILL) ELSE cmd_code
         IN  IF ~IsAscii(unit_no \o channel_no \o padded \o text)
             THEN Raise("UnicodeEncodeError")
             ELSE BytesVal(<<ENQ>> \o unit_no \o channel_no \o padded
                           \o (IF text # <<>> THEN text ELSE <<>>)
                           \o <<CR, LF>>)

(* Mutants of parse_response_frame: nak_min is the length a NAK frame      *)
(* needs, nak_text whether a NAK frame's text is decoded too.              *)
parse_response_frame_variant(resp_bytes, nak_min, nak_text) ==
    IF Len(resp_bytes) < MinFrameLen THEN NoneVal
    ELSE LET nak == resp_bytes[1] = NAK
         IN  IF nak /\ Len(resp_bytes) < nak_min THEN NoneVal
             ELSE [t |-> "dict",
                   header_byte |-> resp_bytes[1],
                   header_str  |-> parse_header(resp_bytes[1]),
                   unit_no     |-> DecodeIgnore(PySlice(resp_bytes, 1, 3)),
                   channel_no  |-> DecodeIgnore(PySlice(resp_bytes, 3, 5)),
                   cmd_code    |-> DecodeIgnore(PySlice(resp_bytes, 5, 13)),
                   error_code  |-> IF nak
                                   THEN StrVal(DecodeIgnore(
                                            PySlice(resp_bytes, 13, 15)))
                                   ELSE NoneVal,
                   text_data   |-> IF nak /\ ~nak_text THEN <<>>
                                   ELSE DecodeIgnore(
                                            PySlice(resp_bytes, 13, -2))]

(* Mutant: the NAK branch does not ask for the two extra bytes.            *)
parse_response_frame_short_nak(resp_bytes) ==
    parse_response_frame_variant(resp_bytes, MinFrameLen, FALSE)

(* Mutant: the text is decoded before the header is looked at.             *)
parse_response_frame_both_fields(resp_bytes) ==
    parse_response_frame_variant(resp_bytes, NakBase + NakExtra, TRUE)

(* parse_response_frame: a dict, or None.                                  *)
parse_response_frame(resp_bytes) ==
    IF Len(resp_bytes) < MinFrameLen THEN NoneVal
    ELSE LET header_byte == resp_bytes[1]
             header_str  == parse_header(header_byte)
             unit_no     == DecodeIgnore(PySlice(resp_bytes, 1, 3))
             channel_no  == DecodeIgnore(PySlice(resp_bytes, 3, 5))
             cmd_code    == DecodeIgnore(PySlice(resp_bytes, 5, 13))
         IN  IF header_byte = NAK
             THEN IF Len(resp_bytes) < NakBase + NakExtra THEN NoneVal
                  ELSE [t |-> "dict",
                        header_byte |-> header_byte,
                        header_str  |-> header_str,
                        unit_no     |-> unit_no,
                        channel_no  |-> channel_no,
                        cmd_code    |-> cmd_code,
                        error_code  |-> StrVal(DecodeIgnore(
                                            PySlice(resp_bytes, 13, 15))),
                        text_data   |-> <<>>]
             ELSE [t |-> "dict",
                   header_byte |-> header_byte,
                   header_str  |-> header_str,
                   unit_no     |-> unit_no,
                   channel_no  |-> channel_no,
                   cmd_code    |-> cmd_code,
                   error_code  |-> NoneVal,
                   text_data   |-> DecodeIgnore(PySlice(resp_bytes, 13, -2))]

---------------------------------------------------------------------------
(* Numbers: f"{amount:010.3f}" and float(text_data).                       *)

RECURSIVE Pow10(_)
Pow10(n) == IF n = 0 THEN 1 ELSE 10 * Pow10(n - 1)

(* The decimal digits of n >= 0, at least `least` of them.                 *)
RECURSIVE Digits(_, _)
Digits(n, least) ==
    IF n < 10 /\ least <= 1 THEN <<ZERO + n>>
    ELSE Append(Digits(n \div 10, least - 1), ZERO + (n % 10))

RECURSIVE Zeros(_)
Zeros(n) == IF n <= 0 THEN <<>> ELSE <<ZERO>> \o Zeros(n - 1)

(* format(amount, "010.3f"): amount is held in units of 10^-3 (every       *)
(* amount of the model is a multiple of 0.001, which .3f prints exactly).  *)
(* The sign comes first, then zeros up to a total width of 10 characters,  *)
(* the point and the decimals included; a longer number is not cut.        *)
FormatFixed(amount) ==
    LET mag  == IF amount < 0 THEN 0 - amount ELSE amount
        sign == IF amount < 0 THEN <<MINUS>> ELSE <<>>
        body == Digits(mag \div Pow10(FmtPrec), 1) \o <<DOT>>
                \o Digits(mag % Pow10(FmtPrec), FmtPrec)
    IN  sign \o Zeros(FmtWidth - Len(sign) - Len(body)) \o body

(* text_value = f"+{amount:010.3f}"                                        *)
cut_out_text_value(amount) == <<PLUS>> \o FormatFixed(amount)

Whitespace == {32, 9, 10, 11, 12, 13}
IsDigit(c) == c \in ZERO..(ZERO + 9)

RECURSIVE LStrip(_)
LStrip(s) == IF s # <<>> /\ Head(s) \in Whitespace THEN LStrip(Tail(s)) ELSE s

RECURSIVE RStrip(_)
RStrip(s) == IF s # <<>> /\ s[Len(s)] \in Whitespace
             THEN RStrip(SubSeq(s, 1, Len(s) - 1)) ELSE s

RECURSIVE DigitsValue(_)
DigitsValue(s) == IF s = <<>> THEN 0
                  ELSE 10 * DigitsValue(SubSeq(s, 1, Len(s) - 1))
                       + (s[Len(s)] - ZERO)

(* A float as sign, decimal mantissa and decimal exponent, with the        *)
(* mantissa's trailing zeros removed: equal numbers are equal values.      *)
RECURSIVE FloatVal(_, _, _)
FloatVal(neg, mant, exp) ==
    IF mant = 0 THEN [t |-> "float", neg |-> neg, mant |-> 0, exp |-> 0]
    ELSE IF mant % 10 = 0 THEN FloatVal(neg, mant \div 10, exp + 1)
    ELSE [t |-> "float", neg |-> neg, mant |-> mant, exp |-> exp]

(* float(text): surrounding whitespace is stripped, then an optional sign, *)
(* then digits with an optional point and at least one digit in all.       *)
(* (Exponents, digit-group underscores, inf and nan, which float() also    *)
(* takes, need characters outside the model's text alphabet.)              *)
PyFloat(text) ==
    LET s    == RStrip(LStrip(text))
        sgn  == s # <<>> /\ Head(s) \in {PLUS, MINUS}
        neg  == s # <<>> /\ Head(s) = MINUS
        u    == IF sgn THEN Tail(s) ELSE s
        dots == {i \in 1..Len(u) : u[i] = DOT}
        ip   == IF dots = {} THEN u
                ELSE SubSeq(u, 1, (CHOOSE i \in dots : \A j \in dots : i <= j) - 1)
        fp   == IF dots = {} THEN <<>>
                ELSE SubSeq(u, (CHOOSE i \in dots : \A j \in dots : i <= j) + 1, Len(u))
        ok   == /\ \A i \in 1..Len(ip) : IsDigit(ip[i])
                /\ \A i \in 1..Len(fp) : IsDigit(fp[i])
                /\ Len(ip) + Len(fp) >= 1
    IN  IF ok THEN FloatVal(neg, DigitsValue(ip \o fp), 0 - Len(fp))
        ELSE Raise("ValueError")

---------------------------------------------------------------------------
(* The exchange and the device operations.                                 *)

GROSS == <<71, 82, 79, 83, 83, 95, 95, 95>>      \* "GROSS___"
FF    == <<70, 70, 95, 95, 95, 95, 95, 95>>      \* "FF______"
CFW   == <<67, 70, 87, 95, 95, 95, 95, 95>>      \* "CFW_____"
FDIS  == <<70, 68, 73, 83, 95, 95, 95, 95>>      \* "FDIS____"

Pending == [t |-> "pending"]

(* What print() writes, one record per line.                               *)
LineNoResponse(cmd_code) == [tag |-> "No response (timeout)", cmd |-> cmd_code]
LineRaw(resp_bytes)      == [tag |-> "Raw response", bytes |-> resp_bytes]
LineParseError           == [tag |-> "Parse error."]
LineParsed(parsed)       == [tag |-> "Parsed", value |-> parsed]
LineOp(text)             == [tag |-> text]

(* Mutant: bytes that do not decode are reported as no response.           *)
send_command_return_conflated(resp_bytes, cmd_code) ==
    LET parsed == parse_response_frame(resp_bytes)
    IN  IF resp_bytes = <<>> \/ parsed.t = "None"
        THEN [ret |-> NoneVal, out |-> <<LineNoResponse(cmd_code)>>]
        ELSE [ret |-> parsed,
              out |-> <<LineRaw(resp_bytes), LineParsed(parsed)>>]

(* send_command after self.ser.read_until(b'\r\n') has returned            *)
(* resp_bytes: the value returned and the lines printed.                   *)
send_command_return(resp_bytes, cmd_code) ==
    IF resp_bytes = <<>>
    THEN [ret |-> NoneVal, out |-> <<LineNoResponse(cmd_code)>>]
    ELSE LET parsed == parse_response_frame(resp_bytes)
         IN  IF parsed.t = "None"
             THEN [ret |-> NoneVal,
                   out |-> <<LineRaw(resp_bytes), LineParseError>>]
             ELSE [ret |-> parsed,
                   out |-> <<LineRaw(resp_bytes), LineParsed(parsed)>>]

(* Mutants: a test that forgets the NAK, a test that asks for STX or ACK.   *)
ff_failed_ignores_nak(resp) == Falsy(resp)
cfw_failed_ignores_nak(resp2) == Falsy(resp2)
fdis_failed_unless_known(resp) ==
    Falsy(resp) \/ resp.header_str \notin {<<"STX">>, <<"ACK">>}

(* The tests `not resp or resp["header_str"] == "NAK"` of the operations.  *)
gross_failed(resp) == Falsy(resp) \/ resp.header_str = <<"NAK">>
ff_failed(resp)    == Falsy(resp) \/ resp.header_str = <<"NAK">>
cfw_failed(resp2)  == Falsy(resp2) \/ resp2.header_str = <<"NAK">>
fdis_failed(resp)  == Falsy(resp) \/ resp.header_str = <<"NAK">>

(* Mutant: float() outside the try block.                                  *)
get_current_weight_result_uncaught(resp) ==
    IF gross_failed(resp) THEN NoneVal ELSE PyFloat(resp.text_data)

(* get_current_weight once send_command has returned resp.                *)
get_current_weight_result(resp) ==
    IF gross_failed(resp) THEN NoneVal
    ELSE LET weight == PyFloat(resp.text_data)
         IN  IF weight.t = "raise" THEN NoneVal ELSE weight

(* discharge_all once send_command has returned resp.                      *)
discharge_all_result(resp) ==
    IF fdis_failed(resp) THEN BoolVal(FALSE) ELSE BoolVal(TRUE)

---------------------------------------------------------------------------
(* The transport and the device behind it.                                 *)

WriteEv(frame)    == [ev |-> "write", data |-> frame]

(* What a read returned, told from the bytes alone.                        *)
RespClass(b) ==
    IF b = <<>> THEN "empty"
    ELSE IF Len(b) < MinFrameLen THEN "undecodable"
    ELSE IF b[1] = NAK
         THEN (IF Len(b) < NakBase + NakExtra THEN "undecodable" ELSE "nak")
    ELSE "accepted"

ReadEv(resp_bytes) == [ev |-> "read", class |-> RespClass(resp_bytes)]

Headers == {STX, ACK, NAK, 65}
TextAlphabet == {48, 49, 46, 45, 32, 128}
Texts == UNION {[1..n -> TextAlphabet] : n \in 0..MaxText}

(* The frames the device may answer a request with: any header, the        *)
(* request's unit, channel and command, any payload, CR LF.                *)
DeviceFrames(request) ==
    {<<h>> \o SubSeq(request, 2, 13) \o p \o <<CR, LF>> :
        h \in Headers, p \in Texts}

(* read_until(b'\r\n') returns a whole frame, or on a timeout what had     *)
(* arrived by then: nothing, or a frame cut short.                         *)
Responses(request) ==
    UNION {{SubSeq(f, 1, k) : k \in 0..Len(f)} : f \in DeviceFrames(request)}

(* A device whose answers may come after the timeout: the same frames with *)
(* a few payloads.                                                         *)
LateTexts == {<<>>, <<49>>, <<49, 46, 48>>}
LateFrames(request) ==
    {<<h>> \o SubSeq(request, 2, 13) \o p \o <<CR, LF>> :
        h \in Headers, p \in LateTexts}
LateResponses(request) ==
    UNION {{SubSeq(f, 1, k) : k \in 0..Len(f)} : f \in LateFrames(request)}

(* self.ser, the open port and the line behind it: the kind of the last    *)
(* transfer, the requests written and not answered yet (oldest first, ENQ  *)
(* and the three fields of each), and the kind of device.  A device that   *)
(* is not late answers within the timeout or never; a late one still owes  *)
(* the answer after a timeout, for at most MaxLate requests behind the one *)
(* at hand.  The port's input buffer is never emptied by the program, so   *)
(* what a read returns is the answer to the oldest request owed.           *)
SerOpen(late) == [last |-> "none", line |-> <<>>, late |-> late]

SerWrite(s, frame) ==
    [s EXCEPT !.last = "write", !.line = Append(@, SubSeq(frame, 1, 13))]

SerReadable(s) ==
    IF s.late THEN LateResponses(Head(s.line)) ELSE Responses(Head(s.line))

SerRead(s, resp_bytes) ==
    [s EXCEPT !.last = "read",
              !.line = IF resp_bytes # <<>> THEN Tail(@)
                       ELSE IF ~s.late THEN <<>>
                       ELSE IF Len(@) > MaxLate THEN Tail(@)
                       ELSE @]

UnitNos    == {<<48, 49>>}
ChannelNos == {<<48, 50>>}
Amounts    == {500, 120000, -5000, 1234567000}
CmdArgs    == {GROSS, <<82, 87>>, <<>>, <<84, 79, 79, 76, 79, 78, 71, 88, 88>>}
TextArgs   == {<<>>, <<49>>, <<233>>}

---------------------------------------------------------------------------
(* The controller: one call at a time, blocked only in the transport read. *)

Call(op, unit_no, channel_no, cmd_code, text, amount) ==
    [op |-> op, unit_no |-> unit_no, channel_no |-> channel_no,
     cmd_code |-> cmd_code, text |-> text, amount |-> amount]

NoCall == Call("none", <<>>, <<>>, <<>>, <<>>, 0)

LastFrame == wire[Len(wire)].data

(* Entry of a call up to its first read: build_command_frame, then         *)
(* self.ser.write(frame); an exception of build_command_frame ends it.     *)
Enter(c, cmd_code, text, readPc) ==
    LET frame == build_command_frame(c.unit_no, c.channel_no, cmd_code, text)
    IN  /\ pc = "idle"
        /\ call' = c
        /\ printed' = <<>>
        /\ IF frame.t = "raise"
           THEN /\ wire' = <<>>
                /\ result' = frame
                /\ pc' = "done"
                /\ ser' = ser
           ELSE /\ wire' = <<WriteEv(frame.v)>>
                /\ result' = Pending
                /\ pc' = readPc
                /\ ser' = SerWrite(ser, frame.v)
        /\ UNCHANGED <<cin, cout>>

send_command_call(unit_no, channel_no, cmd_code, text) ==
    Enter(Call("send_command", unit_no, channel_no, cmd_code, text, 0),
          cmd_code, text, "send_read")

(* Mutant: an empty read is answered by writing the frame once more.       *)
send_command_read_retry ==
    /\ pc = "send_read"
    /\ \E resp_bytes \in SerReadable(ser) :
         LET r == send_command_return(resp_bytes, call.cmd_code)
         IN  IF resp_bytes = <<>> /\ Len(wire) = 1
             THEN /\ wire' = wire \o <<ReadEv(resp_bytes), WriteEv(LastFrame)>>
                  /\ ser' = SerWrite(SerRead(ser, resp_bytes), LastFrame)
                  /\ printed' = <<>>
                  /\ result' = Pending
                  /\ pc' = "send_read"
             ELSE /\ wire' = Append(wire, ReadEv(resp_bytes))
                  /\ ser' = SerRead(ser, resp_bytes)
                  /\ printed' = r.out
                  /\ result' = r.ret
                  /\ pc' = "done"
    /\ UNCHANGED <<call, cin, cout>>

send_command_read ==
    /\ pc = "send_read"
    /\ \E resp_bytes \in SerReadable(ser) :
         LET r == send_command_return(resp_bytes, call.cmd_code)
         IN  /\ wire' = Append(wire, ReadEv(resp_bytes))
             /\ ser' = SerRead(ser, resp_bytes)
             /\ printed' = r.out
             /\ result' = r.ret
    /\ pc' = "done"
    /\ UNCHANGED <<call, cin, cout>>

get_current_weight_call(unit_no, channel_no) ==
    Enter(Call("get_current_weight", unit_no, channel_no, GROSS, <<>>, 0),
          GROSS, <<>>, "gross_read")

(* Mutant: silence is answered by asking for the weight once more.         *)
get_current_weight_read_retry ==
    /\ pc = "gross_read"
    /\ \E resp_bytes \in SerReadable(ser) :
         LET r == send_command_return(resp_bytes, GROSS)
         IN  IF resp_bytes = <<>> /\ Len(wire) = 1
             THEN /\ wire' = wire \o <<ReadEv(resp_bytes), WriteEv(LastFrame)>>
                  /\ ser' = SerWrite(SerRead(ser, resp_bytes), LastFrame)
                  /\ printed' = <<>>
                  /\ result' = Pending
                  /\ pc' = "gross_read"
             ELSE /\ wire' = Append(wire, ReadEv(resp_bytes))
                  /\ ser' = SerRead(ser, resp_bytes)
                  /\ printed' = r.out
                  /\ result' = get_current_weight_result(r.ret)
                  /\ pc' = "done"
    /\ UNCHANGED <<call, cin, cout>>

get_current_weight_read ==
    /\ pc = "gross_read"
    /\ \E resp_bytes \in SerReadable(ser) :
         LET r == send_command_return(resp_bytes, GROSS)
         IN  /\ wire' = Append(wire, ReadEv(resp_bytes))
             /\ ser' = SerRead(ser, resp_bytes)
             /\ printed' = r.out
             /\ result' = get_current_weight_result(r.ret)
    /\ pc' = "done"
    /\ UNCHANGED <<call, cin, cout>>

cut_out_amount_call(unit_no, channel_no, amount) ==
    Enter(Call("cut_out_amount", unit_no, channel_no, FF,
               cut_out_text_value(amount), amount),
          FF, cut_out_text_value(amount), "ff_read")

(* The first exchange returns; on success the second one is started:       *)
(* its frame is built and written, and the call blocks in the second read. *)
cut_out_amount_ff_read ==
    /\ pc = "ff_read"
    /\ \E resp_bytes \in SerReadable(ser) :
         LET r == send_command_return(resp_bytes, FF)
             frame2 == build_command_frame(call.unit_no, call.channel_no,
                                           CFW, <<>>)
         IN  IF ff_failed(r.ret)
             THEN /\ wire' = Append(wire, ReadEv(resp_bytes))
                  /\ ser' = SerRead(ser, resp_bytes)
                  /\ printed' = r.out \o <<LineOp("FF write failed.")>>
                  /\ result' = BoolVal(FALSE)
                  /\ pc' = "done"
             ELSE /\ wire' = wire \o <<ReadEv(resp_bytes), WriteEv(frame2.v)>>
                  /\ ser' = SerWrite(SerRead(ser, resp_bytes), frame2.v)
                  /\ printed' = <<>>
                  /\ result' = Pending
                  /\ pc' = "cfw_read"
    /\ UNCHANGED <<call, cin, cout>>

cut_out_amount_cfw_read ==
    /\ pc = "cfw_read"
    /\ \E resp_bytes \in SerReadable(ser) :
         LET r == send_command_return(resp_bytes, CFW)
         IN  /\ wire' = Append(wire, ReadEv(resp_bytes))
             /\ ser' = SerRead(ser, resp_bytes)
             /\ IF cfw_failed(r.ret)
                THEN /\ printed' = r.out \o <<LineOp("CFW command failed.")>>
                     /\ result' = BoolVal(FALSE)
                ELSE /\ printed' = r.out \o <<LineOp("Started cutout")>>
                     /\ result' = BoolVal(TRUE)
    /\ pc' = "done"
    /\ UNCHANGED <<call, cin, cout>>

discharge_all_call(unit_no, channel_no) ==
    Enter(Call("discharge_all", unit_no, channel_no, FDIS, <<>>, 0),
          FDIS, <<>>, "fdis_read")

(* Mutant: after the answer the line is read once more to drain it.        *)
discharge_all_read_drain ==
    /\ pc = "fdis_read"
    /\ \E resp_bytes \in SerReadable(ser) :
         LET r == send_command_return(resp_bytes, FDIS)
         IN  /\ wire' = wire \o <<ReadEv(resp_bytes), ReadEv(<<>>)>>
             /\ ser' = SerRead(SerRead(ser, resp_bytes), <<>>)
             /\ printed' = r.out \o
                  <<LineOp(IF fdis_failed(r.ret) THEN "FDIS command failed."
                           ELSE "Forced discharge command accepted.")>>
             /\ result' = discharge_all_result(r.ret)
    /\ pc' = "done"
    /\ UNCHANGED <<call, cin, cout>>

discharge_all_read ==
    /\ pc = "fdis_read"
    /\ \E resp_bytes \in SerReadable(ser) :
         LET r == send_command_return(resp_bytes, FDIS)
         IN  /\ wire' = Append(wire, ReadEv(resp_bytes))
             /\ ser' = SerRead(ser, resp_bytes)
             /\ printed' = r.out \o
                  <<LineOp(IF fdis_failed(r.ret) THEN "FDIS command failed."
                           ELSE "Forced discharge command accepted.")>>
             /\ result' = discharge_all_result(r.ret)
    /\ pc' = "done"
    /\ UNCHANGED <<call, cin, cout>>

(* The call is over: the caller has its result (or its exception) and the  *)
(* call's locals are gone; the controller is ready for the next call.      *)
return_to_caller ==
    /\ pc = "done"
    /\ pc' = "idle"
    /\ call' = NoCall
    /\ wire' = <<>>
    /\ printed' = <<>>
    /\ result' = Pending
    /\ UNCHANGED <<ser, cin, cout>>

Init ==
    /\ pc = "idle"
    /\ call = NoCall
    /\ wire = <<>>
    /\ printed = <<>>
    /\ result = Pending
    /\ ser = SerOpen(FALSE)
    /\ cin = <<>>
    /\ cout = Pending

Next ==
    \/ \E u \in UnitNos, c \in ChannelNos, cmd \in CmdArgs, text \in TextArgs :
         send_command_call(u, c, cmd, text)
    \/ send_command_read
    \/ \E u \in UnitNos, c \in ChannelNos : get_current_weight_call(u, c)
    \/ get_current_weight_read
    \/ \E u \in UnitNos, c \in ChannelNos, a \in Amounts :
         cut_out_amount_call(u, c, a)
    \/ cut_out_amount_ff_read
    \/ cut_out_amount_cfw_read
    \/ \E u \in UnitNos, c \in ChannelNos : discharge_all_call(u, c)
    \/ discharge_all_read
    \/ return_to_caller

Spec == Init /\ [][Next]_vars

(* The same controller on a line whose device may answer late.             *)
LateInit ==
    /\ pc = "idle"
    /\ call = NoCall
    /\ wire = <<>>
    /\ printed = <<>>
    /\ result = Pending
    /\ ser = SerOpen(TRUE)
    /\ cin = <<>>
    /\ cout = Pending

LateSpec == LateInit /\ [][Next]_vars

(* read_until returns when the terminator has come or the timeout set in   *)
(* the constructor has elapsed: a call blocked in a read goes on.           *)
ReadReturns ==
    /\ WF_vars(send_command_read)
    /\ WF_vars(get_current_weight_read)
    /\ WF_vars(cut_out_amount_ff_read)
    /\ WF_vars(cut_out_amount_cfw_read)
    /\ WF_vars(discharge_all_read)

FairLateSpec == LateSpec /\ ReadReturns

---------------------------------------------------------------------------
(* The codec on its own: parse_response_frame applied to byte sequences    *)
(* that need not come from a well-behaved device.                          *)

CodecHeaders == {STX, ACK, NAK, 65, 0, 255}
CodecAlphabet == {48, 49, 128}
CodecFields ==
    {<<48, 49, 48, 50>> \o GROSS,                        \* "0102GROSS___"
     <<128, 49, 48, 50>> \o GROSS,                       \* unit_no not ASCII
     <<48, 49, 48, 255>> \o GROSS,                       \* channel_no not ASCII
     <<48, 49, 48, 50, 70, 200, 95, 95, 95, 95, 95, 95>>} \* cmd_code not ASCII
CodecPayloads == UNION {[1..n -> CodecAlphabet] : n \in 0..MaxText}
CodecFrames ==
    {<<h>> \o f \o p \o <<CR, LF>> :
        h \in CodecHeaders, f \in CodecFields, p \in CodecPayloads}
CodecInputs ==
    UNION {{SubSeq(f, 1, k) : k \in 0..Len(f)} : f \in CodecFrames}

codec_decode ==
    /\ cout = Pending
    /\ cout' = parse_response_frame(cin)
    /\ UNCHANGED <<pc, call, wire, printed, result, ser, cin>>

CodecInit ==
    /\ pc = "idle"
    /\ call = NoCall
    /\ wire = <<>>
    /\ printed = <<>>
    /\ result = Pending
    /\ ser = SerOpen(FALSE)
    /\ cin \in CodecInputs
    /\ cout = Pending

(* build_command_frame applied to arguments of any length, ASCII or not;  *)
(* the frame it returns is handed back unchanged as the next input of       *)
(* parse_response_frame.                                                   *)
CodecUnits    == {<<48, 49>>, <<65, 90>>, <<13, 10>>, <<49>>, <<233, 48>>}
CodecChannels == {<<48, 50>>, <<127, 32>>}
CodecCmds ==
    {SubSeq(<<71, 82, 79, 83, 83, 49, 50, 51, 52>>, 1, k) : k \in 0..9}
    \cup {FF, <<65, 95>>, <<32, 66>>}
CodecTexts == {<<>>, <<49>>, <<43, 48, 46, 53>>}

codec_encode(unit_no, channel_no, cmd_code, text) ==
    LET frame == build_command_frame(unit_no, channel_no, cmd_code, text)
    IN  /\ call = NoCall
        /\ cin = <<>>
        /\ call' = Call("build_command_frame", unit_no, channel_no,
                        cmd_code, text, 0)
        /\ result' = frame
        /\ cin' = IF frame.t = "bytes" THEN frame.v ELSE <<>>
        /\ cout' = Pending
        /\ UNCHANGED <<pc, wire, printed, ser>>

(* parse_header applied to any byte.                                       *)
codec_classify(header_byte) ==
    /\ call = NoCall
    /\ cin = <<>>
    /\ call' = [op |-> "parse_header", header_byte |-> header_byte]
    /\ result' = [t |-> "header", v |-> parse_header(header_byte)]
    /\ UNCHANGED <<pc, wire, printed, ser, cin, cout>>

CodecNext ==
    \/ codec_decode
    \/ \E u \in CodecUnits, c \in CodecChannels, cmd \in CodecCmds,
          text \in CodecTexts : codec_encode(u, c, cmd, text)
    \/ \E b \in 0..255 : codec_classify(b)

CodecSpec == CodecInit /\ [][CodecNext]_vars

---------------------------------------------------------------------------
(* Properties.                                                             *)

FrameCmd(frame)  == SubSeq(frame, 6, 13)
FrameText(frame) == SubSeq(frame, 14, Len(frame) - 2)
IsWrite(i) == i \in 1..Len(wire) /\ wire[i].ev = "write"
IsRead(i)  == i \in 1..Len(wire) /\ wire[i].ev = "read"
ReadIs(i, classes) == IsRead(i) /\ wire[i].class \in classes
Failures == {"nak", "empty", "undecodable"}
AsciiByte(x) == x < AsciiLimit
AsciiOnly(b) == SelectSeq(b, AsciiByte)

(* C1: in cut_out_amount, when the FF______ exchange ends in a NAK, in an  *)
(* empty read or in bytes that do not decode, the call returns False and   *)
(* no frame with command code CFW_____ is written during the call.         *)
C1_NoCfwAfterFailedFF ==
    (call.op = "cut_out_amount" /\ ReadIs(2, Failures))
        => /\ pc = "done"
           /\ result = BoolVal(FALSE)
           /\ \A i \in 1..Len(wire) : IsWrite(i) => FrameCmd(wire[i].data) # CFW

C1_Witness ==
    /\ call.op = "cut_out_amount" /\ pc = "done"
    /\ IsWrite(1) /\ FrameCmd(wire[1].data) = FF
    /\ ReadIs(2, {"nak"})
    /\ result = BoolVal(FALSE)

(* C2: cut_out_amount returns True only after exactly two exchanges,       *)
(* FF______ then CFW_____ (with no text), each answered by a decoded       *)
(* response that is not a NAK; a NAK or a failure at the CFW_____ step     *)
(* gives False.                                                            *)
C2_TrueOnlyIfBothSteps ==
    (call.op = "cut_out_amount" /\ pc = "done")
        => /\ result = BoolVal(TRUE)
              => /\ Len(wire) = 4
                 /\ IsWrite(1) /\ FrameCmd(wire[1].data) = FF
                 /\ ReadIs(2, {"accepted"})
                 /\ IsWrite(3) /\ FrameCmd(wire[3].data) = CFW
                 /\ FrameText(wire[3].data) = <<>>
                 /\ ReadIs(4, {"accepted"})
           /\ ReadIs(4, Failures) => result = BoolVal(FALSE)

C2_Witness ==
    /\ call.op = "cut_out_amount" /\ pc = "done"
    /\ result = BoolVal(TRUE)
    /\ Len(wire) = 4

(* C3: a call of send_command that reaches the transport makes exactly one *)
(* write, of the encoded frame, followed by one read, and then returns:    *)
(* no outcome of the read (nothing, a NAK, bytes that do not decode, a     *)
(* good response) makes it write or read again.                            *)
C3_OneRoundTrip ==
    (call.op = "send_command" /\ result.t # "raise")
        => /\ IsWrite(1)
           /\ wire[1].data = <<ENQ>> \o call.unit_no \o call.channel_no
                             \o LJust(call.cmd_code, CmdLen, FILL)
                             \o call.text \o <<CR, LF>>
           /\ pc = "send_read" => Len(wire) = 1
           /\ pc = "done" => Len(wire) = 2 /\ IsRead(2)

C3_Witness ==
    /\ call.op = "send_command" /\ pc = "done"
    /\ Len(wire) = 2 /\ ReadIs(2, {"empty"})
    /\ result = NoneVal

(* C4: the text cut_out_amount sends with FF______ is '+', the integer     *)
(* part zero-padded to 8 digits, '.', and 3 decimals (13 characters):      *)
(* 120.0 gives +00000120.000 and 0.5 gives +00000000.500.                  *)
C4_AmountText ==
    (call.op = "cut_out_amount" /\ IsWrite(1))
        => /\ call.amount = 120000
              => FrameText(wire[1].data) =
                   <<43, 48, 48, 48, 48, 48, 49, 50, 48, 46, 48, 48, 48>>
           /\ call.amount = 500
              => FrameText(wire[1].data) =
                   <<43, 48, 48, 48, 48, 48, 48, 48, 48, 46, 53, 48, 48>>
           /\ (call.amount >= 0 /\ call.amount \div 1000 < 100000000)
              => FrameText(wire[1].data) =
                   <<PLUS>> \o Digits(call.amount \div 1000, 8) \o <<DOT>>
                   \o Digits(call.amount % 1000, 3)

(* C5, as stated: send_command's outcome for bytes that do not decode is   *)
(* another value than its outcome for an empty read.                       *)
C5_FailureKindsDiffer ==
    (call.op = "send_command" /\ pc = "done" /\ ReadIs(2, {"undecodable"}))
        => result # send_command_return(<<>>, call.cmd_code).ret

(* C5, amended: send_command returns the same value None for an empty      *)
(* read and for bytes that do not decode; the two are told apart only by   *)
(* what is printed: the line "No response (timeout)" for the empty read,   *)
(* the raw bytes and then "Parse error." for the bytes that do not decode. *)
C5_FailureKindsOnlyPrinted ==
    (call.op = "send_command" /\ pc = "done")
        => /\ ReadIs(2, {"empty"})
              => /\ result = NoneVal
                 /\ printed = <<LineNoResponse(call.cmd_code)>>
           /\ ReadIs(2, {"undecodable"})
              => /\ result = NoneVal
                 /\ Len(printed) = 2
                 /\ printed[1].tag = "Raw response"
                 /\ RespClass(printed[1].bytes) = "undecodable"
                 /\ printed[2] = LineParseError

C5_Witness ==
    /\ call.op = "send_command" /\ pc = "done"
    /\ ReadIs(2, {"undecodable"})
    /\ result = NoneVal
    /\ Len(printed) = 2 /\ Len(printed[1].bytes) = MinFrameLen + 1

(* C6: send_command with a command code of more than 8 characters fails    *)
(* with ValueError before anything is written: the transport sees no write *)
(* and no read for that call.                                              *)
C6_TooLongCodeWritesNothing ==
    (call.op = "send_command" /\ Len(call.cmd_code) > 8)
        => /\ pc = "done"
           /\ result = Raise("ValueError")
           /\ wire = <<>>

C6_Witness ==
    /\ call.op = "send_command" /\ pc = "done"
    /\ Len(call.cmd_code) = 9
    /\ result = Raise("ValueError")

(* C7: discharge_all writes the single frame FDIS____ with no text, and    *)
(* returns True exactly when the read gave a decoded response whose header *)
(* is not NAK (STX, ACK or an unknown byte); it returns False for a NAK,   *)
(* for an empty read and for bytes that do not decode.                     *)
C7_DischargeAll ==
    (call.op = "discharge_all" /\ pc = "done")
        => /\ Len(wire) = 2
           /\ wire[1] = WriteEv(<<ENQ>> \o call.unit_no \o call.channel_no
                                \o FDIS \o <<CR, LF>>)
           /\ IsRead(2)
           /\ result \in {BoolVal(TRUE), BoolVal(FALSE)}
           /\ result = BoolVal(TRUE) <=> wire[2].class = "accepted"

C7_Witness ==
    /\ call.op = "discharge_all" /\ pc = "done"
    /\ result = BoolVal(TRUE)
    /\ printed[1].bytes[1] = 65

(* C8: get_current_weight writes the single frame GROSS___ and returns     *)
(* None when the response is a NAK, the read is empty, the bytes do not    *)
(* decode or text_data is not a number (the empty text_data of a 15-byte   *)
(* frame included); otherwise it returns the number text_data spells; it   *)
(* never raises.                                                           *)
C8_Text == printed[2].value.text_data

C8_GetCurrentWeight ==
    (call.op = "get_current_weight" /\ pc = "done")
        => /\ Len(wire) = 2
           /\ wire[1] = WriteEv(<<ENQ>> \o call.unit_no \o call.channel_no
                                \o GROSS \o <<CR, LF>>)
           /\ result.t \in {"None", "float"}
           /\ ReadIs(2, Failures) => result = NoneVal
           /\ ReadIs(2, {"accepted"})
              => /\ result = IF PyFloat(C8_Text).t = "raise" THEN NoneVal
                             ELSE PyFloat(C8_Text)
                 /\ C8_Text = AsciiOnly(FrameText(printed[1].bytes))
                 /\ Len(printed[1].bytes) = MinFrameLen => result = NoneVal
                 /\ C8_Text \in {<<49, 32, 49>>, <<46>>, <<45>>, <<45, 45, 49>>,
                                 <<32>>, <<49, 46, 46>>, <<49, 45>>}
                    => result = NoneVal
                 /\ C8_Text \in {<<49, 46, 48>>, <<32, 49>>, <<49, 46>>,
                                 <<48, 49>>, <<49>>}
                    => result = [t |-> "float", neg |-> FALSE,
                                 mant |-> 1, exp |-> 0]
                 /\ C8_Text = <<45, 46, 49>>
                    => result = [t |-> "float", neg |-> TRUE,
                                 mant |-> 1, exp |-> -1]
                 /\ C8_Text = <<49, 48>>
                    => result = [t |-> "float", neg |-> FALSE,
                                 mant |-> 1, exp |-> 1]

C8_Witness ==
    /\ call.op = "get_current_weight" /\ pc = "done"
    /\ ReadIs(2, {"accepted"})
    /\ result = [t |-> "float", neg |-> TRUE, mant |-> 1, exp |-> -1]

(* C9, as stated: parse_response_frame fails on every input shorter than   *)
(* 15 bytes and on a NAK-headed input of 15 or 16 bytes; on a NAK-headed   *)
(* input of exactly 17 bytes it succeeds and error_code is the two bytes   *)
(* at offsets 13 and 14; a non-NAK input of exactly 15 bytes succeeds with *)
(* empty text_data.                                                        *)
C9_Boundaries(code) ==
    cout # Pending
        => /\ Len(cin) < 15 => cout = NoneVal
           /\ (Len(cin) \in {15, 16} /\ cin[1] = 21) => cout = NoneVal
           /\ (Len(cin) = 17 /\ cin[1] = 21)
              => /\ cout.t = "dict"
                 /\ cout.error_code = StrVal(code)
           /\ (Len(cin) = 15 /\ cin[1] # 21)
              => /\ cout.t = "dict"
                 /\ cout.text_data = <<>>

C9_LengthBoundaries == C9_Boundaries(<<cin[14], cin[15]>>)

(* C9, amended: as stated, except that error_code is the bytes at offsets  *)
(* 13 and 14 that are ASCII (below 0x80), in order: both of them when both *)
(* are ASCII, fewer otherwise.                                             *)
C9_LengthBoundariesAscii == C9_Boundaries(AsciiOnly(<<cin[14], cin[15]>>))

C9_Witness ==
    /\ cout.t = "dict"
    /\ Len(cin) = 17 /\ cin[1] = 21
    /\ cin[14] = 128 /\ cin[15] = 49
    /\ cout.error_code = StrVal(<<49>>)

(* C10: a decoded response has exactly one payload field: with a NAK       *)
(* header error_code is a string and text_data is empty; with any other    *)
(* header error_code is None and text_data holds the payload (the bytes    *)
(* from offset 13 up to the last two, those that are ASCII); never both a  *)
(* string error_code and a text_data that is not empty.                    *)
C10_OnePayloadField ==
    cout.t = "dict"
        => /\ cin[1] = 21
              => /\ cout.error_code.t = "str"
                 /\ cout.text_data = <<>>
           /\ cin[1] # 21
              => /\ cout.error_code = NoneVal
                 /\ cout.text_data = AsciiOnly(SubSeq(cin, 14, Len(cin) - 2))
           /\ ~(cout.error_code.t = "str" /\ cout.text_data # <<>>)

C10_Witness ==
    /\ cout.t = "dict"
    /\ cin[1] = 21
    /\ Len(cin) = 18
    /\ cout.error_code = StrVal(<<48, 49>>)
    /\ cout.text_data = <<>>

(* C11: for unit_no and channel_no of exactly 2 ASCII characters and a     *)
(* cmd_code of at most 8 ASCII characters, parse_response_frame applied to *)
(* the bytes build_command_frame produced succeeds and gives back the same *)
(* unit_no, the same channel_no and the cmd_code padded with '_' to 8.     *)
Underscores(n) == [i \in 1..n |-> 95]

C11_Valid ==
    /\ call.op = "build_command_frame"
    /\ Len(call.unit_no) = 2 /\ Len(call.channel_no) = 2
    /\ Len(call.cmd_code) <= 8
    /\ \A i \in 1..Len(call.unit_no) : call.unit_no[i] < 128
    /\ \A i \in 1..Len(call.channel_no) : call.channel_no[i] < 128
    /\ \A i \in 1..Len(call.cmd_code) : call.cmd_code[i] < 128
    /\ \A i \in 1..Len(call.text) : call.text[i] < 128

C11_RoundTrip ==
    C11_Valid
        => /\ result.t = "bytes" /\ cin = result.v
           /\ cout # Pending
              => /\ cout.t = "dict"
                 /\ cout.unit_no = call.unit_no
                 /\ cout.channel_no = call.channel_no
                 /\ cout.cmd_code = call.cmd_code
                                    \o Underscores(8 - Len(call.cmd_code))

C11_Witness ==
    /\ C11_Valid
    /\ call.cmd_code = <<71, 82, 79>>
    /\ call.unit_no = <<13, 10>>
    /\ cout.t = "dict"
    /\ cout.cmd_code = <<71, 82, 79, 95, 95, 95, 95, 95>>

(* C12: the command field of the frame build_command_frame produces (bytes *)
(* 5..12) is the cmd_code right-padded with '_' to 8 characters when it is *)
(* shorter than 8, the cmd_code itself when it has 8; a cmd_code longer    *)
(* than 8 makes it fail; every frame starts with ENQ (0x05) and ends with  *)
(* CR LF.                                                                  *)
C12_Padding ==
    call.op = "build_command_frame"
        => /\ Len(call.cmd_code) > 8 => result = Raise("ValueError")
           /\ result.t = "bytes"
              => /\ Len(call.cmd_code) <= 8
                 /\ result.v[1] = 5
                 /\ result.v[Len(result.v) - 1] = 13
                 /\ result.v[Len(result.v)] = 10
                 /\ LET at == Len(call.unit_no) + Len(call.channel_no) + 1
                        field == SubSeq(result.v, at + 1, at + 8)
                    IN  /\ Len(call.cmd_code) = 8 => field = call.cmd_code
                        /\ Len(call.cmd_code) < 8
                           => field = call.cmd_code
                                      \o Underscores(8 - Len(call.cmd_code))
           /\ C11_Valid => result.t = "bytes"

C12_Witness ==
    /\ call.op = "build_command_frame"
    /\ call.cmd_code = <<>>
    /\ result.t = "bytes"
    /\ SubSeq(result.v, 6, 13) = <<95, 95, 95, 95, 95, 95, 95, 95>>

(* C13: a response of at least 15 bytes whose header is not NAK decodes    *)
(* also when its text field holds bytes >= 0x80: text_data is the ASCII    *)
(* bytes of the text field in their order, the others left out; unit_no,   *)
(* channel_no and cmd_code are decoded by the same rule.                   *)
C13_LenientDecode ==
    (cout # Pending /\ Len(cin) >= 15 /\ cin[1] # 21)
        => /\ cout.t = "dict"
           /\ cout.text_data = AsciiOnly(SubSeq(cin, 14, Len(cin) - 2))
           /\ cout.unit_no = AsciiOnly(SubSeq(cin, 2, 3))
           /\ cout.channel_no = AsciiOnly(SubSeq(cin, 4, 5))
           /\ cout.cmd_code = AsciiOnly(SubSeq(cin, 6, 13))

C13_Witness ==
    /\ cout.t = "dict"
    /\ cin[1] = 2
    /\ SubSeq(cin, 14, Len(cin) - 2) = <<49, 128, 48>>
    /\ cout.text_data = <<49, 48>>

(* C14: parse_header maps 0x02 to STX, 0x06 to ACK, 0x15 to NAK and every  *)
(* other byte b of 0..255 to an UNKNOWN result that carries b (its two     *)
(* hexadecimal digits), so different unknown bytes give different results. *)
HexValue(d) ==
    CASE d = "0" -> 0 [] d = "1" -> 1 [] d = "2" -> 2 [] d = "3" -> 3
      [] d = "4" -> 4 [] d = "5" -> 5 [] d = "6" -> 6 [] d = "7" -> 7
      [] d = "8" -> 8 [] d = "9" -> 9 [] d = "A" -> 10 [] d = "B" -> 11
      [] d = "C" -> 12 [] d = "D" -> 13 [] d = "E" -> 14 [] d = "F" -> 15

C14_HeaderClassification ==
    call.op = "parse_header"
        => /\ call.header_byte = 2 => result.v = <<"STX">>
           /\ call.header_byte = 6 => result.v = <<"ACK">>
           /\ call.header_byte = 21 => result.v = <<"NAK">>
           /\ call.header_byte \notin {2, 6, 21}
              => /\ Len(result.v) = 4
                 /\ result.v[1] = "UNKNOWN(0x" /\ result.v[4] = ")"
                 /\ 16 * HexValue(result.v[2]) + HexValue(result.v[3])
                    = call.header_byte

C14_Witness ==
    /\ call.op = "parse_header"
    /\ call.header_byte = 171
    /\ result.v = <<"UNKNOWN(0x", "A", "B", ")">>

(* C15: every decoded response send_command returns belongs to the request *)
(* just written: its unit_no, channel_no and cmd_code are those of that    *)
(* frame, also when an earlier exchange timed out and its answer arrives   *)
(* during a later one; discharge_all does not return True on the strength  *)
(* of a response to another command.                                       *)
Decoded == pc = "done" /\ Len(printed) >= 2 /\ printed[2].tag = "Parsed"

C15_ResponseBelongsToRequest ==
    /\ Decoded
         => LET response == printed[2].value
                request  == wire[Len(wire) - 1].data
            IN  /\ response.unit_no = SubSeq(request, 2, 3)
                /\ response.channel_no = SubSeq(request, 4, 5)
                /\ response.cmd_code = SubSeq(request, 6, 13)
    /\ (Decoded /\ call.op = "discharge_all" /\ result = BoolVal(TRUE))
         => printed[2].value.cmd_code = FDIS

(* C16: every decoded response send_command returns was decoded from bytes *)
(* that end with CR LF: a read cut off by the timeout after 15 bytes or    *)
(* more is not accepted, so text_data never lacks a payload byte.          *)
C16_OnlyTerminatedFrames ==
    Decoded
        => LET raw == printed[1].bytes
               response == printed[2].value
           IN  /\ SubSeq(raw, Len(raw) - 1, Len(raw)) = <<13, 10>>
               /\ response.header_byte # 21
                  => \A i \in 14..Len(raw) :
                       (raw[i] < 128 /\ raw[i] \notin {13, 10})
                         => \E j \in 1..Len(response.text_data) :
                              response.text_data[j] = raw[i]

(* C17: over any sequence of calls made one after the other, the transport *)
(* sees writes and reads in strict alternation starting with a write: each *)
(* written frame is followed by exactly one read before the next frame is  *)
(* written or the call returns, and a call's frames come in program order  *)
(* (GROSS___ alone, FDIS____ alone, FF______ then CFW_____).               *)
Blocked == pc \notin {"idle", "done"}

Alternates(events, before) ==
    \A i \in 1..Len(events) :
        events[i].ev = IF (IF i = 1 THEN before ELSE events[i - 1].ev) = "write"
                       THEN "read" ELSE "write"

C17_CallOrder ==
    /\ Alternates(wire, "none")
    /\ Blocked => ser.last = "write" /\ Len(wire) % 2 = 1
    /\ ~Blocked => ser.last # "write" /\ Len(wire) % 2 = 0
    /\ (call.op = "get_current_weight" /\ wire # <<>>)
         => Len(wire) <= 2 /\ FrameCmd(wire[1].data) = GROSS
    /\ (call.op = "discharge_all" /\ wire # <<>>)
         => Len(wire) <= 2 /\ FrameCmd(wire[1].data) = FDIS
    /\ (call.op = "cut_out_amount" /\ wire # <<>>)
         => /\ Len(wire) <= 4 /\ FrameCmd(wire[1].data) = FF
            /\ Len(wire) >= 3 => FrameCmd(wire[3].data) = CFW

C17_TransportStep ==
    LET events == IF Len(wire') >= Len(wire)
                  THEN SubSeq(wire', Len(wire) + 1, Len(wire')) ELSE <<>>
    IN  /\ Len(wire') >= Len(wire) => SubSeq(wire', 1, Len(wire)) = wire
        /\ Alternates(events, ser.last)
        /\ ser'.last = IF events = <<>> THEN ser.last
                       ELSE events[Len(events)].ev

C17_Alternation == []C17_CallOrder /\ [][C17_TransportStep]_vars

C17_Witness ==
    /\ call.op = "cut_out_amount" /\ pc = "done"
    /\ Len(wire) = 4 /\ ser.last = "read"
    /\ ser.line # <<>>

(* C18: provided every transport read returns, every call that reached the *)
(* transport returns a result, and it does so after a bounded number of    *)
(* exchanges: exactly 1 for get_current_weight and discharge_all, 1 or 2   *)
(* for cut_out_amount, whatever the device does (NAK, silence, garbage).   *)
Exchanges == Cardinality({i \in 1..Len(wire) : wire[i].ev = "read"})
Writes    == Cardinality({i \in 1..Len(wire) : wire[i].ev = "write"})

C18_Bounded ==
    /\ call.op \in {"get_current_weight", "discharge_all"}
         => /\ Writes <= 1
            /\ pc = "done" => Exchanges = 1 /\ Writes = 1
    /\ call.op = "cut_out_amount"
         => /\ Writes <= 2
            /\ pc = "done" => Exchanges \in {1, 2} /\ Writes = Exchanges
    /\ pc = "done" => result # Pending

C18_Termination == []C18_Bounded /\ (Blocked ~> pc = "done")

C18_Witness ==
    /\ call.op = "get_current_weight" /\ pc = "done"
    /\ Exchanges = 1 /\ ReadIs(2, {"undecodable"})
    /\ result = NoneVal

===========================================================================
